---- MODULE Spec2Model ----
(***************************************************************************)
(* A model of apitool/app.py: a Flask gateway that validates JSON          *)
(* documents against per-collection JSON Schemas and forwards create,      *)
(* read, update and delete requests to a MongoDB database.                 *)
(*                                                                         *)
(* One action per route handler; every action is the whole handler, from   *)
(* the registry lookup to the response.  The store is the set of documents *)
(* of every collection, with the behaviour of the pymongo calls the        *)
(* handlers make (insert_one, find_one, update_one with $set, delete_one,  *)
(* server_info, list_collection_names).                                    *)
(*                                                                         *)
(* Spec and SpecReachable start from a process that has been imported;     *)
(* SpecStartup starts at the import itself, with the connection probe and  *)
(* the loop over the files of schemas/; SpecRace lets two handlers work on *)
(* one stored document at the same time.                                   *)
(***************************************************************************)
EXTENDS Integers, Sequences, FiniteSets, TLC

VARIABLES
    schemas,    \* app.py:24   collection name -> JSON Schema (the registry)
    db,         \* app.py:21   collection name -> set of stored documents
    created,    \* collections the store has materialised (list_collection_names)
    up,         \* whether the MongoDB server can be reached
    nextOid,    \* how many ObjectIds the driver has generated so far
    req,        \* the request the last step served (none after a step of the store)
    resp,       \* the response to it
    trace,      \* the steps the handler took for it, in order
    before,     \* db as it was when that request arrived
    repeatOf,   \* status of the request served in the step before, when it was the same request; else 0
    phase,      \* where the process is: "connecting", "loading", "serving" or "exited"
    pending,    \* app.py:27  the files of schemas/ the loop has still to visit, in os.listdir order
    race        \* the requests that are being handled at the same time

vars == <<schemas, db, created, up, nextOid, req, resp, trace, before, repeatOf,
          phase, pending, race>>

----------------------------------------------------------------------------
(* Bounds of the model *)

\* The ObjectIds the driver generates in one run.
MaxIssued == 1

\* Length of the textual form of an ObjectId (24 in bson, scaled down).
HexLen == 2

\* The files of the schemas/ directory.
MaxFiles == 2

----------------------------------------------------------------------------
(* JSON values and documents *)

\* A JSON value is [t |-> its JSON type, v |-> its text]; a document is a
\* function from some field names to JSON values.
JString(s) == [t |-> "string", v |-> s]
JInteger(s) == [t |-> "integer", v |-> s]

Fields == {"_id", "name", "age"}

\* Base-2 numeral of n over the digits "0" and "a", HexLen digits long.
RECURSIVE Pow2(_)
Pow2(k) == IF k = 0 THEN 1 ELSE 2 * Pow2(k - 1)
Encode(n) == [i \in 1..HexLen |-> IF (n \div Pow2(HexLen - i)) % 2 = 0 THEN "0" ELSE "a"]

\* The values a request body may give to each field.  The text of an "_id"
\* is a sequence of characters, so that it can be compared with the text of
\* an ObjectId.
FieldValues ==
    [name |-> {JString("Ana")},
     age  |-> {JInteger("30")},
     _id  |-> {JString(Encode(1))}]

Restrict(d, S) == [f \in S |-> d[f]]

\* The fields a request body may have.
BodyShapes == {{"name"}, {"age"}, {"name", "age"}, {"_id", "name", "age"}}

\* The request bodies: the JSON objects of those shapes with those values,
\* and one whose age is a string.
Bodies ==
    {Restrict(d, S) :
        d \in [name : FieldValues.name, age : FieldValues.age, _id : FieldValues._id],
        S \in BodyShapes}
    \cup {[name |-> JString("Ana"), age |-> JString("x")]}

EmptyDoc == [f \in {} |-> JString("")]

----------------------------------------------------------------------------
(* Schema registry (app.py:24-39) *)

\* The collection names a request path can carry.  "ghost" has no schema.
CollectionNames == {"users", "items", "ghost"}

\* A JSON Schema, as far as the model reads it: the required properties, the
\* type of each declared property, whether other properties are allowed, and
\* the greatest number of properties (maxProperties, the empty set when the
\* schema has no such keyword).
\* "users" is the schema of the specification's scenario (name and age
\* required, other properties allowed, as JSON Schema does by default);
\* "items" requires nothing, allows no other property and at most one
\* property: an item has a name or an age.
LoadedSchemas ==
    [users |-> [required |-> {"name", "age"},
                properties |-> [name |-> "string", age |-> "integer"],
                additionalProperties |-> TRUE,
                maxProperties |-> {}],
     items |-> [required |-> {},
                properties |-> [name |-> "string", age |-> "integer"],
                additionalProperties |-> FALSE,
                maxProperties |-> {1}]]

----------------------------------------------------------------------------
(* Validator (app.py:42-50) *)

\* A validation that looks at the required properties only.
validate_RequiredOnly(instance, schema) ==
    IF \E f \in schema.required : f \notin DOMAIN instance
        THEN "is a required property"
    ELSE ""

\* jsonschema.validate: "" when the instance conforms, else the message of
\* the violation it reports.
validate(instance, schema) ==
    IF \E f \in schema.required : f \notin DOMAIN instance
        THEN "is a required property"
    ELSE IF \E f \in DOMAIN instance \cap DOMAIN schema.properties :
                instance[f].t # schema.properties[f]
        THEN "is not of type"
    ELSE IF ~schema.additionalProperties
            /\ \E f \in DOMAIN instance : f \notin DOMAIN schema.properties
        THEN "Additional properties are not allowed"
    ELSE IF \E most \in schema.maxProperties : Cardinality(DOMAIN instance) > most
        THEN "has too many properties"
    ELSE ""

\* A validator that lets every document through.
validate_json_AlwaysValid(data, schema) == [is_valid |-> TRUE, error_message |-> ""]

\* A validator that looks at the required properties only.
validate_json_RequiredOnly(data, schema) ==
    LET message == validate_RequiredOnly(data, schema)
    IN  [is_valid |-> message = "", error_message |-> message]

validate_json(data, schema) ==
    LET message == validate(data, schema)
    IN  [is_valid |-> message = "", error_message |-> message]

----------------------------------------------------------------------------
(* Document identifier codec (app.py:53-60) *)

\* The hexadecimal digits of the model's alphabet.
HexDigits == {"0", "a"}

None == [t |-> "null", v |-> <<>>]

\* bson.ObjectId(oid) for a str: the 12 bytes that HexLen hexadecimal
\* digits spell, and InvalidId for every other string.
ObjectId(oid) ==
    IF Len(oid) = HexLen /\ \A i \in 1..Len(oid) : oid[i] \in HexDigits
        THEN [raised |-> "", value |-> [t |-> "objectid", v |-> oid]]
        ELSE [raised |-> "InvalidId", value |-> None]

\* The classes the except clause of objectid_validator names.  bson's
\* InvalidId derives from BSONError, which derives from Exception.
CaughtByValidator == {"TypeError", "ValueError"}

objectid_validator(object_id) ==
    LET r == ObjectId(object_id)
    IN  IF r.raised \in CaughtByValidator THEN [raised |-> "", value |-> None] ELSE r

\* str() of an identifier: the text itself.
str(id) == id.v

----------------------------------------------------------------------------
(* Storage: what the pymongo calls of the handlers do *)

\* The exceptions of the store that derive from pymongo.errors.PyMongoError.
PyMongoError == {"ServerSelectionTimeoutError", "DuplicateKeyError", "WriteError"}

WithId(data, id) == [f \in DOMAIN data \cup {"_id"} |-> IF f = "_id" THEN id ELSE data[f]]

\* A replacement: the body takes the place of the stored document.
Merge_Replaces(doc, data) == WithId(data, doc["_id"])

\* {"$set": data} applied to a stored document.
Merge(doc, data) ==
    [f \in DOMAIN doc \cup DOMAIN data |-> IF f \in DOMAIN data THEN data[f] ELSE doc[f]]

Matching(collection, id) == {d \in db[collection] : d["_id"] = id}

\* Collection.insert_one(document): the driver gives a document without
\* "_id" a new ObjectId; the server refuses a second document with the same
\* "_id" and creates the collection on its first insert.
insert_one(collection, data) ==
    LET id  == IF "_id" \in DOMAIN data THEN data["_id"]
               ELSE [t |-> "objectid", v |-> Encode(nextOid)]
        doc == WithId(data, id)
    IN  IF ~up
            THEN [raised |-> "ServerSelectionTimeoutError", inserted_id |-> None,
                  db |-> db, nextOid |-> nextOid, created |-> created]
        ELSE IF Matching(collection, id) # {}
            THEN [raised |-> "DuplicateKeyError", inserted_id |-> None,
                  db |-> db, nextOid |-> nextOid, created |-> created]
        ELSE [raised |-> "", inserted_id |-> id,
              db |-> [db EXCEPT ![collection] = @ \cup {doc}],
              nextOid |-> IF "_id" \in DOMAIN data THEN nextOid ELSE nextOid + 1,
              created |-> created \cup {collection}]

\* Collection.find_one({"_id": id}).
find_one(collection, id) ==
    IF ~up THEN [raised |-> "ServerSelectionTimeoutError", found |-> FALSE, obj |-> EmptyDoc]
    ELSE IF Matching(collection, id) = {} THEN [raised |-> "", found |-> FALSE, obj |-> EmptyDoc]
    ELSE [raised |-> "", found |-> TRUE, obj |-> CHOOSE d \in Matching(collection, id) : TRUE]

\* Collection.update_one({"_id": id}, {"$set": data}): the server refuses to
\* change the "_id" of the document it matched.
update_one(collection, id, data) ==
    IF ~up THEN [raised |-> "ServerSelectionTimeoutError", matched_count |-> 0, db |-> db]
    ELSE IF Matching(collection, id) = {} THEN [raised |-> "", matched_count |-> 0, db |-> db]
    ELSE LET doc == CHOOSE d \in Matching(collection, id) : TRUE
         IN  IF "_id" \in DOMAIN data /\ data["_id"] # doc["_id"]
                THEN [raised |-> "WriteError", matched_count |-> 0, db |-> db]
                ELSE [raised |-> "", matched_count |-> 1,
                      db |-> [db EXCEPT ![collection] = (@ \ {doc}) \cup {Merge(doc, data)}]]

\* A delete that empties the collection of the document it matched.
delete_one_DeletesMany(collection, id) ==
    IF ~up THEN [raised |-> "ServerSelectionTimeoutError", deleted_count |-> 0, db |-> db]
    ELSE IF Matching(collection, id) = {} THEN [raised |-> "", deleted_count |-> 0, db |-> db]
    ELSE [raised |-> "", deleted_count |-> 1, db |-> [db EXCEPT ![collection] = {}]]

\* Collection.delete_one({"_id": id}).
delete_one(collection, id) ==
    IF ~up THEN [raised |-> "ServerSelectionTimeoutError", deleted_count |-> 0, db |-> db]
    ELSE IF Matching(collection, id) = {} THEN [raised |-> "", deleted_count |-> 0, db |-> db]
    ELSE [raised |-> "", deleted_count |-> 1,
          db |-> [db EXCEPT ![collection] = @ \ Matching(collection, id)]]

\* MongoClient.server_info() and Database.list_collection_names().
server_info == IF up THEN "" ELSE "ServerSelectionTimeoutError"

list_collection_names ==
    IF up THEN [raised |-> "", names |-> created]
          ELSE [raised |-> "ServerSelectionTimeoutError", names |-> {}]

----------------------------------------------------------------------------
(* Startup: what the module does when it is imported (app.py:12-39) *)

\* A file of schemas/: its name, the exception that open() or json.load()
\* raises on it ("" when there is none), and the JSON object it holds.
File(stem, ext, raised, definition) ==
    [stem |-> stem, ext |-> ext, raised |-> raised, definition |-> definition]

\* {"collection_name": ..., "schema": ...}
Envelope(collection_name, schema) == [collection_name |-> collection_name, schema |-> schema]

\* The files a schemas/ directory may hold: the two envelopes of the
\* registry above (the second in a file that is not named after its
\* collection), a bare JSON Schema, an envelope without "schema", a file that
\* is no JSON, a file that cannot be read, and a file that is no .json file.
SchemaFiles ==
    {File("users", ".json", "", Envelope("users", LoadedSchemas.users)),
     File("products", ".json", "", Envelope("items", LoadedSchemas.items)),
     File("orders", ".json", "", LoadedSchemas.users),
     File("partial", ".json", "", [collection_name |-> "ghost"]),
     File("broken", ".json", "JSONDecodeError", EmptyDoc),
     File("locked", ".json", "IOError", EmptyDoc),
     File("README", ".md", "", EmptyDoc)}

\* What os.listdir can return: the files of a directory, in any order.
RECURSIVE Listings(_)
Listings(n) ==
    IF n = 0 THEN {<<>>}
    ELSE LET shorter == Listings(n - 1)
         IN  shorter \cup
             {Append(l, f) : l \in {k \in shorter : Len(k) = n - 1}, f \in SchemaFiles}

Distinct(l) == \A i, j \in DOMAIN l : l[i] = l[j] => i = j

\* filename.endswith('.json')
endswith_json(file) == file.ext = ".json"

\* The classes the two except clauses of the loop name (app.py:34, 37).
CaughtByLoader == {"IOError", "JSONDecodeError", "KeyError"}

\* A loop that passes over every file it cannot load.
load_schema_SkipsUnloadable(file) ==
    IF ~endswith_json(file) \/ file.raised # ""
         \/ "collection_name" \notin DOMAIN file.definition
         \/ "schema" \notin DOMAIN file.definition
        THEN [exit |-> FALSE, raised |-> "", schemas |-> schemas]
    ELSE [exit |-> FALSE, raised |-> "",
          schemas |-> [c \in DOMAIN schemas \cup {file.definition["collection_name"]} |->
                         IF c = file.definition["collection_name"]
                            THEN file.definition["schema"] ELSE schemas[c]]]

\* One turn of the loop of app.py:27-39 on one file: whether it calls
\* exit(1), and the registry it leaves.
load_schema(file) ==
    IF ~endswith_json(file)
        THEN [exit |-> FALSE, raised |-> "", schemas |-> schemas]
    ELSE IF file.raised # ""
        THEN [exit |-> file.raised \in CaughtByLoader, raised |-> file.raised,
              schemas |-> schemas]
    ELSE LET definition == file.definition IN
    IF "collection_name" \notin DOMAIN definition \/ "schema" \notin DOMAIN definition
        THEN [exit |-> "KeyError" \in CaughtByLoader, raised |-> "KeyError",
              schemas |-> schemas]
    ELSE LET collection == definition["collection_name"]
         IN  [exit |-> FALSE, raised |-> "",
              schemas |-> [c \in DOMAIN schemas \cup {collection} |->
                             IF c = collection THEN definition["schema"] ELSE schemas[c]]]

----------------------------------------------------------------------------
(* Responses *)

\* What jsonify(...) and the status code of a return statement make.
Response(status) ==
    [status |-> status, handled |-> TRUE, error |-> "", message |-> "", exc |-> "",
     id |-> <<>>, doc |-> EmptyDoc, health |-> "", listing |-> {}]

JsonError(status, text) == [Response(status) EXCEPT !.error = text]

\* {"error": f"Database error: {str(e)}"}, 500
DatabaseError(e) == [Response(500) EXCEPT !.error = "Database error", !.exc = e]

\* An exception no except clause of the handler names leaves the handler;
\* Flask answers it with its own 500 page.
Unhandled(e) == [Response(500) EXCEPT !.handled = FALSE, !.exc = e]

\* One step of a handler: what it did and whether that went well.
Step(op, ok) == [op |-> op, ok |-> ok]

\* What a handler leaves behind: its response, the steps it took, and the
\* module's globals and the store as they are when it returns.
Outcome(r, steps) ==
    [resp |-> r, trace |-> steps, db |-> db, nextOid |-> nextOid, created |-> created,
     schemas |-> schemas]

----------------------------------------------------------------------------
(* Request handlers (app.py:63-194) *)

\* create_object that registers a collection it does not know, with the
\* schema of "users".
create_object_RegistersCollection(collection, data) ==
    IF collection \notin DOMAIN schemas
        THEN [Outcome(JsonError(404, "Collection not found"), <<Step("schemas", FALSE)>>)
                EXCEPT !.schemas = [c \in DOMAIN schemas \cup {collection} |->
                                      IF c = collection THEN LoadedSchemas.users
                                      ELSE schemas[c]]]
    ELSE LET v == validate_json(data, schemas[collection]) IN
    IF ~v.is_valid
        THEN Outcome(JsonError(400, v.error_message),
                     <<Step("schemas", TRUE), Step("validate_json", FALSE)>>)
    ELSE LET result == insert_one(collection, data)
             steps  == <<Step("schemas", TRUE), Step("validate_json", TRUE),
                         Step("insert_one", result.raised = "")>>
         IN
    IF result.raised \in PyMongoError
        THEN Outcome(DatabaseError(result.raised), steps)
    ELSE IF result.raised # ""
        THEN Outcome(Unhandled(result.raised), steps)
    ELSE [Outcome([Response(201) EXCEPT !.message = "Object created",
                                        !.id = str(result.inserted_id)], steps)
            EXCEPT !.db = result.db, !.nextOid = result.nextOid,
                   !.created = result.created]

\* create_object without its except clause around insert_one.
create_object_NoExcept(collection, data) ==
    IF collection \notin DOMAIN schemas
        THEN Outcome(JsonError(404, "Collection not found"), <<Step("schemas", FALSE)>>)
    ELSE LET v == validate_json(data, schemas[collection]) IN
    IF ~v.is_valid
        THEN Outcome(JsonError(400, v.error_message),
                     <<Step("schemas", TRUE), Step("validate_json", FALSE)>>)
    ELSE LET result == insert_one(collection, data)
             steps  == <<Step("schemas", TRUE), Step("validate_json", TRUE),
                         Step("insert_one", result.raised = "")>>
         IN
    IF result.raised # ""
        THEN Outcome(Unhandled(result.raised), steps)
    ELSE [Outcome([Response(201) EXCEPT !.message = "Object created",
                                        !.id = str(result.inserted_id)], steps)
            EXCEPT !.db = result.db, !.nextOid = result.nextOid,
                   !.created = result.created]

\* POST /<collection>
create_object(collection, data) ==
    IF collection \notin DOMAIN schemas
        THEN Outcome(JsonError(404, "Collection not found"), <<Step("schemas", FALSE)>>)
    ELSE LET v == validate_json(data, schemas[collection]) IN
    IF ~v.is_valid
        THEN Outcome(JsonError(400, v.error_message),
                     <<Step("schemas", TRUE), Step("validate_json", FALSE)>>)
    ELSE LET result == insert_one(collection, data)
             steps  == <<Step("schemas", TRUE), Step("validate_json", TRUE),
                         Step("insert_one", result.raised = "")>>
         IN
    IF result.raised \in PyMongoError
        THEN Outcome(DatabaseError(result.raised), steps)
    ELSE IF result.raised # ""
        THEN Outcome(Unhandled(result.raised), steps)
    ELSE [Outcome([Response(201) EXCEPT !.message = "Object created",
                                        !.id = str(result.inserted_id)], steps)
            EXCEPT !.db = result.db, !.nextOid = result.nextOid,
                   !.created = result.created]

\* get_object without its "if not obj" test: obj['_id'] of None raises TypeError.
get_object_NoAbsentCheck(collection, object_id) ==
    IF collection \notin DOMAIN schemas
        THEN Outcome(JsonError(404, "Collection not found"), <<Step("schemas", FALSE)>>)
    ELSE LET obj_id == objectid_validator(object_id) IN
    IF obj_id.raised # ""
        THEN Outcome(Unhandled(obj_id.raised),
                     <<Step("schemas", TRUE), Step("objectid_validator", FALSE)>>)
    ELSE IF obj_id.value = None
        THEN Outcome(JsonError(400, "Invalid object ID"),
                     <<Step("schemas", TRUE), Step("objectid_validator", FALSE)>>)
    ELSE LET result == find_one(collection, obj_id.value)
             steps  == <<Step("schemas", TRUE), Step("objectid_validator", TRUE),
                         Step("find_one", result.raised = "")>>
         IN
    IF result.raised \in PyMongoError
        THEN Outcome(DatabaseError(result.raised), steps)
    ELSE IF ~result.found
        THEN Outcome(Unhandled("TypeError"), steps)
    ELSE Outcome([Response(200) EXCEPT
                    !.doc = [result.obj EXCEPT !["_id"] = JString(str(result.obj["_id"]))]],
                 steps)

\* GET /<collection>/<object_id>
get_object(collection, object_id) ==
    IF collection \notin DOMAIN schemas
        THEN Outcome(JsonError(404, "Collection not found"), <<Step("schemas", FALSE)>>)
    ELSE LET obj_id == objectid_validator(object_id) IN
    IF obj_id.raised # ""
        THEN Outcome(Unhandled(obj_id.raised),
                     <<Step("schemas", TRUE), Step("objectid_validator", FALSE)>>)
    ELSE IF obj_id.value = None
        THEN Outcome(JsonError(400, "Invalid object ID"),
                     <<Step("schemas", TRUE), Step("objectid_validator", FALSE)>>)
    ELSE LET result == find_one(collection, obj_id.value)
             steps  == <<Step("schemas", TRUE), Step("objectid_validator", TRUE),
                         Step("find_one", result.raised = "")>>
         IN
    IF result.raised \in PyMongoError
        THEN Outcome(DatabaseError(result.raised), steps)
    ELSE IF result.raised # ""
        THEN Outcome(Unhandled(result.raised), steps)
    ELSE IF ~result.found
        THEN Outcome(JsonError(404, "Object not found"), steps)
    ELSE Outcome([Response(200) EXCEPT
                    !.doc = [result.obj EXCEPT !["_id"] = JString(str(result.obj["_id"]))]],
                 steps)

\* update_object that replaces the document: it deletes the one the
\* identifier names and inserts the body, which gets a new ObjectId.
update_object_DeleteAndInsert(collection, object_id, data) ==
    IF collection \notin DOMAIN schemas
        THEN Outcome(JsonError(404, "Collection not found"), <<Step("schemas", FALSE)>>)
    ELSE LET v == validate_json(data, schemas[collection]) IN
    IF ~v.is_valid
        THEN Outcome(JsonError(400, v.error_message),
                     <<Step("schemas", TRUE), Step("validate_json", FALSE)>>)
    ELSE LET obj_id == objectid_validator(object_id) IN
    IF obj_id.raised # ""
        THEN Outcome(Unhandled(obj_id.raised),
                     <<Step("schemas", TRUE), Step("validate_json", TRUE),
                       Step("objectid_validator", FALSE)>>)
    ELSE LET result == delete_one(collection, obj_id.value)
             steps  == <<Step("schemas", TRUE), Step("validate_json", TRUE),
                         Step("objectid_validator", TRUE),
                         Step("update_one", result.raised = "")>>
         IN
    IF result.raised \in PyMongoError
        THEN Outcome(DatabaseError(result.raised), steps)
    ELSE IF result.deleted_count = 0
        THEN Outcome(JsonError(404, "Object not found"), steps)
    ELSE [Outcome([Response(200) EXCEPT !.message = "Object updated"], steps)
            EXCEPT !.db = [result.db EXCEPT ![collection] =
                            @ \cup {WithId(data, [t |-> "objectid", v |-> Encode(nextOid)])}],
                   !.nextOid = nextOid + 1]

\* update_object without its validation gate.
update_object_NoValidation(collection, object_id, data) ==
    IF collection \notin DOMAIN schemas
        THEN Outcome(JsonError(404, "Collection not found"), <<Step("schemas", FALSE)>>)
    ELSE LET obj_id == objectid_validator(object_id) IN
    IF obj_id.raised # ""
        THEN Outcome(Unhandled(obj_id.raised),
                     <<Step("schemas", TRUE), Step("objectid_validator", FALSE)>>)
    ELSE LET result == update_one(collection, obj_id.value, data)
             steps  == <<Step("schemas", TRUE), Step("objectid_validator", TRUE),
                         Step("update_one", result.raised = "")>>
         IN
    IF result.raised \in PyMongoError
        THEN Outcome(DatabaseError(result.raised), steps)
    ELSE IF result.matched_count = 0
        THEN Outcome(JsonError(404, "Object not found"), steps)
    ELSE [Outcome([Response(200) EXCEPT !.message = "Object updated"], steps)
            EXCEPT !.db = result.db]

\* PUT /<collection>/<object_id>
update_object(collection, object_id, data) ==
    IF collection \notin DOMAIN schemas
        THEN Outcome(JsonError(404, "Collection not found"), <<Step("schemas", FALSE)>>)
    ELSE LET v == validate_json(data, schemas[collection]) IN
    IF ~v.is_valid
        THEN Outcome(JsonError(400, v.error_message),
                     <<Step("schemas", TRUE), Step("validate_json", FALSE)>>)
    ELSE LET obj_id == objectid_validator(object_id) IN
    IF obj_id.raised # ""
        THEN Outcome(Unhandled(obj_id.raised),
                     <<Step("schemas", TRUE), Step("validate_json", TRUE),
                       Step("objectid_validator", FALSE)>>)
    ELSE IF obj_id.value = None
        THEN Outcome(JsonError(400, "Invalid object ID"),
                     <<Step("schemas", TRUE), Step("validate_json", TRUE),
                       Step("objectid_validator", FALSE)>>)
    ELSE LET result == update_one(collection, obj_id.value, data)
             steps  == <<Step("schemas", TRUE), Step("validate_json", TRUE),
                         Step("objectid_validator", TRUE),
                         Step("update_one", result.raised = "")>>
         IN
    IF result.raised \in PyMongoError
        THEN Outcome(DatabaseError(result.raised), steps)
    ELSE IF result.raised # ""
        THEN Outcome(Unhandled(result.raised), steps)
    ELSE IF result.matched_count = 0
        THEN Outcome(JsonError(404, "Object not found"), steps)
    ELSE [Outcome([Response(200) EXCEPT !.message = "Object updated"], steps)
            EXCEPT !.db = result.db]

\* delete_object that parses the identifier before it looks the collection up.
delete_object_ParsesFirst(collection, object_id) ==
    LET obj_id == objectid_validator(object_id) IN
    IF obj_id.raised # ""
        THEN Outcome(Unhandled(obj_id.raised), <<Step("objectid_validator", FALSE)>>)
    ELSE IF collection \notin DOMAIN schemas
        THEN Outcome(JsonError(404, "Collection not found"),
                     <<Step("objectid_validator", TRUE), Step("schemas", FALSE)>>)
    ELSE LET result == delete_one(collection, obj_id.value)
             steps  == <<Step("objectid_validator", TRUE), Step("schemas", TRUE),
                         Step("delete_one", result.raised = "")>>
         IN
    IF result.raised \in PyMongoError
        THEN Outcome(DatabaseError(result.raised), steps)
    ELSE IF result.deleted_count = 0
        THEN Outcome(JsonError(404, "Object not found"), steps)
    ELSE [Outcome([Response(200) EXCEPT !.message = "Object deleted"], steps)
            EXCEPT !.db = result.db]

\* DELETE /<collection>/<object_id>
delete_object(collection, object_id) ==
    IF collection \notin DOMAIN schemas
        THEN Outcome(JsonError(404, "Collection not found"), <<Step("schemas", FALSE)>>)
    ELSE LET obj_id == objectid_validator(object_id) IN
    IF obj_id.raised # ""
        THEN Outcome(Unhandled(obj_id.raised),
                     <<Step("schemas", TRUE), Step("objectid_validator", FALSE)>>)
    ELSE IF obj_id.value = None
        THEN Outcome(JsonError(400, "Invalid object ID"),
                     <<Step("schemas", TRUE), Step("objectid_validator", FALSE)>>)
    ELSE LET result == delete_one(collection, obj_id.value)
             steps  == <<Step("schemas", TRUE), Step("objectid_validator", TRUE),
                         Step("delete_one", result.raised = "")>>
         IN
    IF result.raised \in PyMongoError
        THEN Outcome(DatabaseError(result.raised), steps)
    ELSE IF result.raised # ""
        THEN Outcome(Unhandled(result.raised), steps)
    ELSE IF result.deleted_count = 0
        THEN Outcome(JsonError(404, "Object not found"), steps)
    ELSE [Outcome([Response(200) EXCEPT !.message = "Object deleted"], steps)
            EXCEPT !.db = result.db]

\* GET /healthcheck: the except clause names ServerSelectionTimeoutError only.
healthcheck ==
    IF server_info = ""
        THEN Outcome([Response(200) EXCEPT !.health = "healthy"],
                     <<Step("server_info", TRUE)>>)
    ELSE IF server_info = "ServerSelectionTimeoutError"
        THEN Outcome([Response(503) EXCEPT !.health = "unhealthy",
                                           !.error = "Cannot connect to MongoDB"],
                     <<Step("server_info", FALSE)>>)
    ELSE Outcome(Unhandled(server_info), <<Step("server_info", FALSE)>>)

\* get_collections that lists the collections the store has created.
get_collections_ListsCreated ==
    LET created_collections == list_collection_names IN
    IF created_collections.raised # ""
        THEN Outcome(Unhandled(created_collections.raised),
                     <<Step("list_collection_names", FALSE)>>)
    ELSE Outcome([Response(200) EXCEPT !.listing =
                    {[schema |-> schemas[collection], name |-> collection, created |-> TRUE] :
                        collection \in DOMAIN schemas \cap created_collections.names}],
                 <<Step("list_collection_names", TRUE)>>)

\* GET /collections: no try statement around list_collection_names().
get_collections ==
    LET created_collections == list_collection_names IN
    IF created_collections.raised # ""
        THEN Outcome(Unhandled(created_collections.raised),
                     <<Step("list_collection_names", FALSE)>>)
    ELSE Outcome([Response(200) EXCEPT !.listing =
                    {[schema |-> schemas[collection], name |-> collection,
                      created |-> collection \in created_collections.names] :
                        collection \in DOMAIN schemas}],
                 <<Step("list_collection_names", TRUE)>>)

----------------------------------------------------------------------------
(* Requests *)

\* The identifier strings a request path can carry: the text of every
\* ObjectId the driver can generate and of one it never generates, and two
\* malformed strings (a wrong length, a character that is no hexadecimal
\* digit).
ObjectIdStrings ==
    {Encode(n) : n \in 0..MaxIssued}
        \cup {SubSeq(Encode(0), 2, HexLen), [Encode(0) EXCEPT ![HexLen] = "g"]}

Request(method, path, collection, object_id, data) ==
    [method |-> method, path |-> path, collection |-> collection,
     object_id |-> object_id, data |-> data]

NoRequest == Request("", "", "", <<>>, EmptyDoc)

\* The handler's outcome becomes the state after the request.
Serve(r, out) ==
    /\ phase = "serving"
    /\ req' = r
    /\ resp' = out.resp
    /\ trace' = out.trace
    /\ db' = out.db
    /\ nextOid' = out.nextOid
    /\ created' = out.created
    /\ before' = db
    /\ repeatOf' = IF r = req THEN resp.status ELSE 0
    /\ schemas' = out.schemas
    /\ UNCHANGED <<up, phase, pending, race>>

CreateObject ==
    \E collection \in CollectionNames, data \in Bodies :
        LET out == create_object(collection, data) IN
        /\ out.nextOid <= MaxIssued
        /\ Serve(Request("POST", "/<collection>", collection, <<>>, data), out)

GetObject ==
    \E collection \in CollectionNames, object_id \in ObjectIdStrings :
        Serve(Request("GET", "/<collection>/<object_id>", collection, object_id, EmptyDoc),
              get_object(collection, object_id))

UpdateObject ==
    \E collection \in CollectionNames, object_id \in ObjectIdStrings, data \in Bodies :
        Serve(Request("PUT", "/<collection>/<object_id>", collection, object_id, data),
              update_object(collection, object_id, data))

DeleteObject ==
    \E collection \in CollectionNames, object_id \in ObjectIdStrings :
        Serve(Request("DELETE", "/<collection>/<object_id>", collection, object_id, EmptyDoc),
              delete_object(collection, object_id))

Healthcheck ==
    Serve(Request("GET", "/healthcheck", "", <<>>, EmptyDoc), healthcheck)

GetCollections ==
    Serve(Request("GET", "/collections", "", <<>>, EmptyDoc), get_collections)

\* A step of the store serves no request.
NoRequestServed ==
    /\ req' = NoRequest
    /\ resp' = Response(0)
    /\ trace' = <<>>
    /\ before' = db
    /\ repeatOf' = 0

\* The environment: the MongoDB server becomes unreachable, or reachable again.
StorageFails ==
    /\ up
    /\ up' = FALSE
    /\ NoRequestServed
    /\ UNCHANGED <<schemas, db, created, nextOid, phase, pending, race>>

StorageRecovers ==
    /\ ~up
    /\ up' = TRUE
    /\ NoRequestServed
    /\ UNCHANGED <<schemas, db, created, nextOid, phase, pending, race>>

----------------------------------------------------------------------------
(* Startup steps (app.py:12-39, 197-198) *)

\* client.server_info() of app.py:16: exit(1) when the server does not answer.
Connect ==
    /\ phase = "connecting"
    /\ phase' = IF server_info = "" THEN "loading" ELSE "exited"
    /\ UNCHANGED <<schemas, db, created, up, nextOid, req, resp, trace, before, repeatOf,
                   pending, race>>

\* One turn of the loop over os.listdir(schemas_dir).  A file that stops the
\* process stays at the head of pending.
LoadSchema ==
    /\ phase = "loading"
    /\ pending # <<>>
    /\ LET loaded == load_schema(Head(pending)) IN
        /\ schemas' = loaded.schemas
        /\ phase' = IF loaded.exit \/ loaded.raised # "" THEN "exited" ELSE phase
        /\ pending' = IF loaded.exit \/ loaded.raised # "" THEN pending ELSE Tail(pending)
    /\ UNCHANGED <<db, created, up, nextOid, req, resp, trace, before, repeatOf, race>>

\* The import has reached its end: app.run() starts to serve.
AppRun ==
    /\ phase = "loading"
    /\ pending = <<>>
    /\ phase' = "serving"
    /\ UNCHANGED <<schemas, db, created, up, nextOid, req, resp, trace, before, repeatOf,
                   pending, race>>

----------------------------------------------------------------------------
(* Requests that are handled at the same time *)

\* Flask's threaded server runs one handler per request; two of them are
\* enough for the races on one document.
Handlers == {"first", "second"}

InFlight(r, pc, response) == [req |-> r, pc |-> pc, resp |-> response]

NoRace == [h \in Handlers |-> InFlight(NoRequest, "idle", Response(0))]

\* A DELETE and a second request, a DELETE or a PUT, arrive for the same
\* identifier of a document that is stored, and neither has called the store.
Arrive ==
    /\ phase = "serving"
    /\ race = NoRace
    /\ \E collection \in DOMAIN schemas, object_id \in ObjectIdStrings :
        /\ \E d \in db[collection] : str(d["_id"]) = object_id
        /\ \E r \in {Request("DELETE", "/<collection>/<object_id>", collection, object_id,
                               EmptyDoc)}
                      \cup {Request("PUT", "/<collection>/<object_id>", collection,
                                     object_id, data) : data \in Bodies} :
            race' = [first  |-> InFlight(Request("DELETE", "/<collection>/<object_id>",
                                                 collection, object_id, EmptyDoc),
                                         "arrived", Response(0)),
                     second |-> InFlight(r, "arrived", Response(0))]
    /\ UNCHANGED <<schemas, db, created, up, nextOid, req, resp, trace, before, repeatOf,
                   phase, pending>>

\* One handler runs.  It makes one call to the store, and nothing it does
\* before or after that call reads or writes what the other handler can
\* change, so the handler takes effect at its call.
Handle(h) ==
    /\ race[h].pc = "arrived"
    /\ LET r   == race[h].req
           out == IF r.method = "DELETE"
                     THEN delete_object(r.collection, r.object_id)
                     ELSE update_object(r.collection, r.object_id, r.data)
       IN  /\ race' = [race EXCEPT ![h] = InFlight(r, "done", out.resp)]
           /\ db' = out.db
           /\ nextOid' = out.nextOid
           /\ created' = out.created
           /\ schemas' = out.schemas
    /\ UNCHANGED <<up, req, resp, trace, before, repeatOf, phase, pending>>

HandleRequest == \E h \in Handlers : Handle(h)

\* Both responses have been sent.
Depart ==
    /\ \A h \in Handlers : race[h].pc = "done"
    /\ race' = NoRace
    /\ UNCHANGED <<schemas, db, created, up, nextOid, req, resp, trace, before, repeatOf,
                   phase, pending>>

----------------------------------------------------------------------------
(* Specifications *)

\* The state once the module has been imported: the server answered
\* server_info() (app.py:13-19), every schema file was loaded (app.py:27-39),
\* the store is empty and no request has been served.
Init ==
    /\ schemas = LoadedSchemas
    /\ db = [collection \in CollectionNames |-> {}]
    /\ created = {}
    /\ up = TRUE
    /\ nextOid = 0
    /\ req = NoRequest
    /\ resp = Response(0)
    /\ trace = <<>>
    /\ before = db
    /\ repeatOf = 0
    /\ phase = "serving"
    /\ pending = <<>>
    /\ race = NoRace

Requests ==
    \/ CreateObject
    \/ GetObject
    \/ UpdateObject
    \/ DeleteObject
    \/ Healthcheck
    \/ GetCollections

Next ==
    \/ Requests
    \/ StorageFails
    \/ StorageRecovers

Spec == Init /\ [][Next]_vars

\* The same server in front of a store that stays reachable: what a claim
\* fails under here, it does not fail because of an outage.
NextReachable == Requests

SpecReachable == Init /\ [][NextReachable]_vars

\* The process from the moment python starts to import the module: the
\* server may or may not answer, and schemas/ holds any of the listings.
InitStartup ==
    /\ schemas = [collection \in {} |-> LoadedSchemas.users]
    /\ db = [collection \in CollectionNames |-> {}]
    /\ created = {}
    /\ up \in BOOLEAN
    /\ nextOid = 0
    /\ req = NoRequest
    /\ resp = Response(0)
    /\ trace = <<>>
    /\ before = db
    /\ repeatOf = 0
    /\ phase = "connecting"
    /\ pending \in {l \in Listings(MaxFiles) : Distinct(l)}
    /\ race = NoRace

NextStartup ==
    \/ Connect
    \/ LoadSchema
    \/ AppRun
    \/ Requests
    \/ StorageFails
    \/ StorageRecovers

SpecStartup == InitStartup /\ [][NextStartup]_vars

\* The server with two requests in flight for one stored document, in
\* front of a store that stays reachable.  Documents are created one request
\* at a time, while no race is on.
NextRace ==
    \/ race = NoRace /\ CreateObject
    \/ Arrive
    \/ HandleRequest
    \/ Depart

SpecRace == Init /\ [][NextRace]_vars

----------------------------------------------------------------------------
(* Vocabulary of the properties *)

ObjectPath == "/<collection>/<object_id>"

Known(collection) == collection \in DOMAIN schemas

Is2xx(status) == status \in 200..299

\* The request was a POST or a PUT to a registered collection.
Mutating == req.method \in {"POST", "PUT"} /\ Known(req.collection)

\* The request was a GET, PUT or DELETE of an object of a registered collection.
Identified == req.path = ObjectPath /\ Known(req.collection)

\* Not HexLen hexadecimal digits: a wrong length, or some other character.
Malformed(object_id) ==
    Len(object_id) # HexLen \/ \E i \in 1..Len(object_id) : object_id[i] \notin HexDigits

\* The request body conforms to the schema of the request's collection.
BodyValid == validate(req.data, schemas[req.collection]) = ""

\* The documents of store s that the identifier string names in a collection.
Named(s, collection, object_id) ==
    {d \in s[collection] : d["_id"] = [t |-> "objectid", v |-> object_id]}

StorageCalls ==
    {"insert_one", "find_one", "update_one", "delete_one", "server_info",
     "list_collection_names"}

\* The calls the handler made, and the places of the trace where it made them.
Called == {trace[i].op : i \in DOMAIN trace}

Succeeded(op) == \E i \in DOMAIN trace : trace[i] = Step(op, TRUE)

----------------------------------------------------------------------------
(* C1 *)

\* C1, as stated, for the identifiers that are well formed: a POST of D to a
\* registered collection, and a PUT of D to it with any such identifier,
\* returns a 2xx status if and only if validate(D, S) succeeds.
C1_TwoxxIffValid ==
    (Mutating /\ (req.method = "PUT" => ~Malformed(req.object_id))) =>
        (Is2xx(resp.status) <=> BodyValid)

\* C1, amended: a POST or PUT of D to a registered collection returns 2xx
\* only if validate(D, S) succeeds, and a D that fails it is answered 400
\* with the validator's message; a valid D is answered 2xx exactly when the
\* later gates pass too.  POST: the store is reachable and holds no document
\* with the "_id" D carries.  PUT: the identifier is well formed and names a
\* stored document, the store is reachable and D does not give that document
\* another "_id".
C1_ValidThenLaterGates ==
    Mutating =>
        /\ Is2xx(resp.status) => BodyValid
        /\ ~BodyValid => resp = JsonError(400, validate(req.data, schemas[req.collection]))
        /\ req.method = "POST" =>
                (Is2xx(resp.status) <=>
                    /\ BodyValid
                    /\ up
                    /\ "_id" \in DOMAIN req.data =>
                            \A d \in before[req.collection] : d["_id"] # req.data["_id"])
        /\ req.method = "PUT" =>
                (Is2xx(resp.status) <=>
                    /\ BodyValid
                    /\ ~Malformed(req.object_id)
                    /\ Named(before, req.collection, req.object_id) # {}
                    /\ up
                    /\ "_id" \in DOMAIN req.data =>
                            \A d \in Named(before, req.collection, req.object_id) :
                                d["_id"] = req.data["_id"])

\* A PUT of a valid body to a stored document, answered 200.
C1_Witness ==
    /\ Mutating
    /\ req.method = "PUT"
    /\ BodyValid
    /\ Named(before, req.collection, req.object_id) # {}
    /\ resp.status = 200

----------------------------------------------------------------------------
(* C2 *)

\* C2: a GET, PUT or DELETE on a registered collection with a malformed
\* identifier is answered 400 by the handler, and no storage operation is
\* issued for it.
C2_MalformedIs400 ==
    (Identified /\ Malformed(req.object_id)) =>
        /\ resp.status = 400
        /\ resp.handled
        /\ Called \cap StorageCalls = {}

----------------------------------------------------------------------------
(* C3 *)

\* C3: a POST, GET, PUT or DELETE whose collection is not in the registry is
\* answered 404 "Collection not found" whatever its body and identifier; the
\* handler stops at the registry lookup (no validation, no identifier
\* parsing, no storage operation) and the store is as it was.
C3_UnknownCollection404 ==
    (req.path \in {"/<collection>", ObjectPath} /\ ~Known(req.collection)) =>
        /\ resp = JsonError(404, "Collection not found")
        /\ trace = <<Step("schemas", FALSE)>>
        /\ db = before

\* A PUT to an unregistered collection whose body no schema of the registry
\* accepts and whose identifier is malformed.
C3_Witness ==
    /\ req.method = "PUT"
    /\ ~Known(req.collection)
    /\ Malformed(req.object_id)
    /\ \A c \in DOMAIN schemas : validate(req.data, schemas[c]) # ""
    /\ resp.status = 404

----------------------------------------------------------------------------
(* C4 *)

\* The request is a GET, a PUT with a body valid against the schema, or a
\* DELETE, on a registered collection, and its identifier is well formed and
\* names no stored document of that collection.
AbsentIdentifier ==
    /\ Identified
    /\ ~Malformed(req.object_id)
    /\ Named(before, req.collection, req.object_id) = {}
    /\ req.method = "PUT" => BodyValid

\* C4, as stated: a GET, PUT (with a body valid against the schema) or
\* DELETE on a registered collection, with a well-formed identifier that
\* names no stored document of it, is answered 404, never 500.
C4_AbsentIs404 == AbsentIdentifier => resp.status = 404

\* C4, amended: while the store is reachable, such a request is answered 404
\* "Object not found" by the handler, never 500, and changes nothing.
C4_AbsentIs404WhileReachable ==
    (AbsentIdentifier /\ up) =>
        /\ resp = JsonError(404, "Object not found")
        /\ db = before

\* A PUT of a valid body with a well-formed identifier that names nothing.
C4_Witness ==
    /\ AbsentIdentifier
    /\ up
    /\ req.method = "PUT"
    /\ db[req.collection] # {}
    /\ resp.status = 404

----------------------------------------------------------------------------
(* C5 *)

\* C5: after a POST of a schema-valid D to a registered collection is
\* answered 201 with identifier i, the GET of i in that collection served
\* next is answered 200 with D plus the field "_id" holding i as a string.
C5_CreateThenRead ==
    [][(/\ req.method = "POST"
        /\ resp.status = 201
        /\ req'.method = "GET"
        /\ req'.path = ObjectPath
        /\ req'.collection = req.collection
        /\ req'.object_id = resp.id) =>
            /\ resp'.status = 200
            /\ resp'.doc = WithId(req.data, JString(resp.id))]_vars

----------------------------------------------------------------------------
(* C6 *)

\* C6: when a PUT is answered 200, the identical PUT served immediately
\* afterwards is answered 200 too and leaves every collection as the first
\* PUT left it.
C6_PutIdempotent ==
    (req.method = "PUT" /\ repeatOf = 200) =>
        /\ resp.status = 200
        /\ db = before

\* The second of two identical PUTs, the first of which was answered 200.
C6_Witness ==
    /\ req.method = "PUT"
    /\ repeatOf = 200
    /\ resp.status = 200
    /\ Named(db, req.collection, req.object_id) # {}

----------------------------------------------------------------------------
(* C7 *)

\* The documents of store s whose identifier, as the API reports it (the
\* text of "_id"), is the given string.
Identifies(s, collection, object_id) == {d \in s[collection] : str(d["_id"]) = object_id}

\* C7: for every document with identifier i present in a registered
\* collection, the DELETE of i is answered 200 and removes the document; the
\* same DELETE served again right after it is answered 404; and once no
\* document has identifier i, a GET or DELETE of i is answered 404.
C7_DeleteTwice ==
    /\ (/\ Identified
        /\ req.method = "DELETE"
        /\ Identifies(before, req.collection, req.object_id) # {}) =>
            /\ resp.status = 200
            /\ Identifies(db, req.collection, req.object_id) = {}
    /\ (req.method = "DELETE" /\ repeatOf = 200) => resp.status = 404
    /\ (/\ Identified
        /\ req.method \in {"GET", "DELETE"}
        /\ ~Malformed(req.object_id)
        /\ Identifies(before, req.collection, req.object_id) = {}) =>
            resp.status = 404

----------------------------------------------------------------------------
(* C8 *)

\* The request passes every gate before its storage operation: a registered
\* collection, a valid body (POST, PUT), a well-formed identifier (GET, PUT,
\* DELETE).
ReachesStorage ==
    /\ req.path \in {"/<collection>", ObjectPath}
    /\ Known(req.collection)
    /\ req.method \in {"POST", "PUT"} => BodyValid
    /\ req.path = ObjectPath => ~Malformed(req.object_id)

\* C8, as stated: while the store is unreachable, every /healthcheck request
\* is answered 503 and every POST, GET, PUT and DELETE is answered 500.
C8_UnreachableAll500 ==
    ~up =>
        /\ req.path = "/healthcheck" => resp.status = 503
        /\ req.path \in {"/<collection>", ObjectPath} => resp.status = 500

\* C8, amended: while the store is unreachable, every /healthcheck request
\* is answered 503, and every POST, GET, PUT and DELETE that passes the gates
\* before its storage operation (registered collection, valid body,
\* well-formed identifier) is answered 500 "Database error" by the handler.
C8_UnreachablePastGates500 ==
    ~up =>
        /\ req.path = "/healthcheck" =>
                resp.status = 503 /\ resp.handled /\ resp.health = "unhealthy"
        /\ ReachesStorage =>
                /\ resp = DatabaseError("ServerSelectionTimeoutError")
                /\ db = before

\* A DELETE of a stored document while the store is unreachable.
C8_Witness ==
    /\ ~up
    /\ req.method = "DELETE"
    /\ ReachesStorage
    /\ Named(before, req.collection, req.object_id) # {}
    /\ resp.status = 500

----------------------------------------------------------------------------
(* C9 *)

\* C9: every error that arises while a request is handled, on any endpoint,
\* is caught inside the handler and turned into a JSON response.
C9_NothingEscapes == resp.handled

----------------------------------------------------------------------------
(* C10 *)

\* C10: an insert or update is issued to the store only after the request
\* body passed validation against the schema of the request's collection, in
\* the same request; a request whose body fails validation issues no storage
\* operation and leaves the store as it was.
C10_ValidatedBeforeWrite ==
    /\ \A i \in DOMAIN trace :
            trace[i].op \in {"insert_one", "update_one"} =>
                /\ \E j \in 1..(i - 1) : trace[j] = Step("validate_json", TRUE)
                /\ Known(req.collection)
                /\ BodyValid
    /\ (Mutating /\ ~BodyValid) => (Called \cap StorageCalls = {} /\ db = before)
    /\ (db # before /\ req.method \in {"POST", "PUT"}) => (Known(req.collection) /\ BodyValid)

\* A PUT that changed a stored document.
C10_Witness ==
    /\ req.method = "PUT"
    /\ Succeeded("update_one")
    /\ db # before

----------------------------------------------------------------------------
(* C11 *)

----------------------------------------------------------------------------
(* C12 *)

\* The "_id" values of the documents of every collection of store s.
Identifiers(s) == [collection \in CollectionNames |-> {d["_id"] : d \in s[collection]}]

\* C12: the identifier that a POST answered 201 returns is an ObjectId that
\* the store generated, and is not taken from the request body; and a PUT
\* leaves every stored document under the identifier it had.
C12_IdentityFromStorage ==
    /\ (req.method = "POST" /\ resp.status = 201) =>
            /\ "_id" \in DOMAIN req.data => resp.id # str(req.data["_id"])
            /\ \A d \in db[req.collection] \ before[req.collection] :
                    d["_id"] = [t |-> "objectid", v |-> resp.id]
    /\ req.method = "PUT" => Identifiers(db) = Identifiers(before)

----------------------------------------------------------------------------
(* C13 *)

\* A .json file that cannot be read, is no JSON, or lacks "collection_name"
\* or "schema".
Unloadable(file) ==
    /\ file.ext = ".json"
    /\ \/ file.raised \in {"IOError", "JSONDecodeError"}
       \/ "collection_name" \notin DOMAIN file.definition
       \/ "schema" \notin DOMAIN file.definition

\* C13: a request is served only by a process that is serving, and a
\* process starts to serve only when the server has answered the probe and
\* the loop has passed every file of schemas/; when the server does not
\* answer the probe, or the loop comes to a file that is unloadable, the
\* process goes no further than to exit, and a process that has exited serves
\* no request.
C13_FailFast ==
    [][/\ req' # NoRequest => phase' = "serving"
       /\ phase' = "serving" => phase \in {"loading", "serving"} /\ pending' = <<>>
       /\ (phase = "loading" /\ phase' = "serving") => pending = <<>>
       /\ phase = "connecting" => phase' \in {"connecting", "loading", "exited"}
       /\ (phase = "connecting" /\ phase' = "loading") => up
       /\ (phase = "connecting" /\ ~up /\ phase' # phase) => phase' = "exited"
       /\ (phase = "loading" /\ pending # <<>> /\ Unloadable(Head(pending))) =>
                /\ pending' = pending
                /\ schemas' = schemas
                /\ phase' \in {"loading", "exited"}
       /\ phase = "exited" => phase' = "exited" /\ req' = NoRequest]_vars

\* The process has exited at an unloadable file after it had registered a
\* schema, and has served no request.
C13_Witness ==
    /\ phase = "exited"
    /\ pending # <<>>
    /\ Unloadable(Head(pending))
    /\ DOMAIN schemas # {}
    /\ req = NoRequest

----------------------------------------------------------------------------
(* C14 *)

\* A readable .json file that holds an envelope, and one that holds a bare
\* JSON Schema.
IsEnvelope(file) ==
    /\ file.ext = ".json"
    /\ file.raised = ""
    /\ {"collection_name", "schema"} \subseteq DOMAIN file.definition

IsBareSchema(file) ==
    /\ file.ext = ".json"
    /\ file.raised = ""
    /\ "collection_name" \notin DOMAIN file.definition
    /\ "properties" \in DOMAIN file.definition

\* C14: a turn of the loading loop on an envelope registers its schema under
\* its collection_name, a turn on a bare JSON Schema registers it under the
\* name of the file without the extension, and either way the loop goes on to
\* the next file.
C14_BothFormsLoad ==
    [][(phase = "loading" /\ pending # <<>> /\ up' = up) =>
        LET file == Head(pending) IN
        /\ IsEnvelope(file) =>
                /\ phase' = "loading"
                /\ pending' = Tail(pending)
                /\ file.definition["collection_name"] \in DOMAIN schemas'
                /\ schemas'[file.definition["collection_name"]] = file.definition["schema"]
        /\ IsBareSchema(file) =>
                /\ phase' = "loading"
                /\ pending' = Tail(pending)
                /\ file.stem \in DOMAIN schemas'
                /\ schemas'[file.stem] = file.definition]_vars

----------------------------------------------------------------------------
(* C15 *)

\* C15: the listing that GET /collections returns, and it returns one
\* whenever the store is reachable, has exactly one entry for each collection
\* of the registry and no other entry; each entry carries the schema of its
\* collection, and its created flag is true exactly when the store lists a
\* collection of that name.
C15_ListingMatchesRegistry ==
    req.path = "/collections" =>
        /\ up => resp.status = 200
        /\ resp.status = 200 =>
            /\ \A collection \in DOMAIN schemas :
                    Cardinality({e \in resp.listing : e.name = collection}) = 1
            /\ \A e \in resp.listing :
                    /\ e.name \in DOMAIN schemas
                    /\ e.schema = schemas[e.name]
                    /\ e.created <=> e.name \in created

\* A listing of two collections, one that the store has created and one
\* that it has not.
C15_Witness ==
    /\ req.path = "/collections"
    /\ resp.status = 200
    /\ \E e \in resp.listing : e.created
    /\ \E e \in resp.listing : ~e.created

----------------------------------------------------------------------------
(* C16 *)

\* C16: once the process serves, no step, and so no request of any
\* endpoint at any point of any run, adds an entry to the registry, removes
\* one or changes the schema of one.
C16_RegistryReadOnly ==
    [][phase = "serving" =>
        /\ DOMAIN schemas' = DOMAIN schemas
        /\ \A collection \in DOMAIN schemas : schemas'[collection] = schemas[collection]]_vars

\* A serving process with a registry of two collections has created a
\* document.
C16_Witness ==
    /\ phase = "serving"
    /\ Cardinality(DOMAIN schemas) = 2
    /\ req.method = "POST"
    /\ resp.status = 201

----------------------------------------------------------------------------
(* C17 *)

\* C17: the first gate that fails makes the response.  A request for a
\* collection that is not registered is answered 404 whatever its body and
\* identifier; a PUT to a registered collection with a body that does not
\* conform and a malformed identifier is answered 400 with the validator's
\* message; a PUT with a body that conforms and a malformed identifier is
\* answered 400 "Invalid object ID".
C17_FirstFailingGate ==
    /\ (req.method \in {"POST", "PUT", "DELETE"} \/ req.path = ObjectPath)
            /\ ~Known(req.collection)
        => resp = JsonError(404, "Collection not found")
    /\ (req.method = "PUT" /\ Known(req.collection) /\ ~BodyValid
            /\ Malformed(req.object_id))
        => resp = JsonError(400, validate(req.data, schemas[req.collection]))
    /\ (req.method = "PUT" /\ Known(req.collection) /\ BodyValid
            /\ Malformed(req.object_id))
        => resp = JsonError(400, "Invalid object ID")

----------------------------------------------------------------------------
(* C18 *)

\* A stored document without its "_id".
WithoutId(doc) == Restrict(doc, DOMAIN doc \ {"_id"})

\* C18, as stated: every document stored in a registered collection,
\* ignoring its "_id", conforms to the schema of the collection.
C18_StoredConforms ==
    \A collection \in DOMAIN schemas : \A doc \in db[collection] :
        validate(WithoutId(doc), schemas[collection]) = ""

\* The schema without its constraints on the object as a whole.
PerProperty(schema) == [schema EXCEPT !.maxProperties = {}]

\* C18, amended: every document stored in a registered collection, ignoring
\* its "_id", meets the constraints of the schema on single properties
\* (required, type, additionalProperties); a document that a POST has just
\* stored, and every body that a PUT has merged, conforms to the whole schema.
C18_StoredConformsPerProperty ==
    /\ \A collection \in DOMAIN schemas : \A doc \in db[collection] :
            validate(WithoutId(doc), PerProperty(schemas[collection])) = ""
    /\ (req.method = "POST" /\ resp.status = 201) =>
            \A doc \in db[req.collection] \ before[req.collection] :
                validate(WithoutId(doc), schemas[req.collection]) = ""
    /\ (req.method = "PUT" /\ resp.status = 200) =>
            validate(req.data, schemas[req.collection]) = ""

\* A PUT answered 200 has left a document that does not conform to the
\* whole schema.
C18_Witness ==
    /\ req.method = "PUT"
    /\ resp.status = 200
    /\ \E doc \in db[req.collection] :
            validate(WithoutId(doc), schemas[req.collection]) # ""

----------------------------------------------------------------------------
(* C19 *)

\* C19: two requests have arrived together for the identifier of a stored
\* document, and both have been answered.  Of two DELETEs one was answered
\* 200 and the other 404.  A PUT (of a body that conforms to the schema and
\* has no "_id") that met a DELETE was answered 200 or 404, and no document
\* has the identifier any more.
C19_RaceOnOneDocument ==
    (\A h \in Handlers : race[h].pc = "done") =>
        LET first  == race["first"]
            second == race["second"]
        IN  /\ second.req.method = "DELETE" =>
                    {first.resp.status, second.resp.status} = {200, 404}
            /\ (/\ second.req.method = "PUT"
                /\ validate(second.req.data, schemas[second.req.collection]) = ""
                /\ "_id" \notin DOMAIN second.req.data) =>
                    /\ second.resp.status \in {200, 404}
                    /\ Identifies(db, second.req.collection, second.req.object_id) = {}

----------------------------------------------------------------------------
(* C20 *)

\* The request left the store as it was.
Untouched == db = before

\* The request added one document to its collection, removed one from it,
\* or put one in the place of another, and did nothing else.
AddedOne ==
    \E new \in db[req.collection] \ before[req.collection] :
        db = [before EXCEPT ![req.collection] = @ \cup {new}]

RemovedOne ==
    \E old \in before[req.collection] \ db[req.collection] :
        db = [before EXCEPT ![req.collection] = @ \ {old}]

ReplacedOne ==
    \E old \in before[req.collection] \ db[req.collection] :
    \E new \in db[req.collection] \ before[req.collection] :
        db = [before EXCEPT ![req.collection] = (@ \ {old}) \cup {new}]

\* Every GET, and every POST, PUT or DELETE answered 4xx or 5xx, leaves the
\* store as it was, so that only a 201 POST, a 200 PUT or a 200 DELETE
\* changes it.
OnlySuccessfulWritesChange ==
    /\ req.method = "GET" => Untouched
    /\ (req.method \in {"POST", "PUT", "DELETE"} /\ resp.status >= 400) => Untouched
    /\ ~Untouched =>
            \/ req.method = "POST" /\ resp.status = 201
            \/ req.method = "PUT" /\ resp.status = 200
            \/ req.method = "DELETE" /\ resp.status = 200

\* C20, as stated: only successful writes change the store, and each 201
\* POST, 200 PUT and 200 DELETE changes exactly one document of the
\* request's collection.
C20_ChangesExactlyOne ==
    /\ OnlySuccessfulWritesChange
    /\ (req.method = "POST" /\ resp.status = 201) => AddedOne
    /\ (req.method = "PUT" /\ resp.status = 200) => ReplacedOne
    /\ (req.method = "DELETE" /\ resp.status = 200) => RemovedOne

\* C20, amended: only successful writes change the store; a 201 POST adds
\* exactly one document to the request's collection, a 200 DELETE removes
\* exactly one from it, and a 200 PUT changes one document of it or, when
\* the body holds the values already stored, none.
C20_ChangesAtMostOne ==
    /\ OnlySuccessfulWritesChange
    /\ (req.method = "POST" /\ resp.status = 201) => AddedOne
    /\ (req.method = "PUT" /\ resp.status = 200) => ReplacedOne \/ Untouched
    /\ (req.method = "DELETE" /\ resp.status = 200) => RemovedOne

\* A DELETE answered 200 has removed one of two documents of a collection.
C20_Witness ==
    /\ req.method = "DELETE"
    /\ resp.status = 200
    /\ Cardinality(before[req.collection]) = 2
    /\ RemovedOne

====
